---- MODULE Spec2Model ----
(***************************************************************************)
(* Model of typeExg_matlab_eig.h: conversions between Eigen dense matrices *)
(* (Eigen::Matrix<T, Dynamic, Dynamic>, column-major, owning) and MATLAB   *)
(* numeric arrays (mxArray).                                               *)
(*                                                                         *)
(* Memory is a heap of buffers; a buffer is a sequence of elements of the  *)
(* scalar type T, each element standing for sizeof(T) bytes.  A typed      *)
(* pointer T* is a buffer id and an offset counted in elements; memcpy     *)
(* takes its length in bytes, as in the source.                            *)
(***************************************************************************)
EXTENDS Integers, Sequences, FiniteSets, TLC

\* ------------------------------------------------------------------ bounds
MaxRows == 2
MaxCols == 2
MaxChannels == 2
MaxWrites == 1

\* ------------------------------------------------------- scalar types, tags

\* The scalar types that have a specialization of getMatlabType (lines 20-29).
ScalarTypes ==
    {"char", "unsigned char", "short", "unsigned short", "int", "unsigned int",
     "long long", "unsigned long long", "float", "double"}

\* Some scalar types Eigen accepts that have no specialization.
OtherTypes == {"bool", "long double", "signed char", "long"}

\* sizeof(T) in bytes (LP64 / LLP64: the listed types have the same widths).
SizeOf(t) ==
    CASE t \in {"char", "unsigned char", "bool", "signed char"} -> 1
      [] t \in {"short", "unsigned short"} -> 2
      [] t \in {"int", "unsigned int", "float"} -> 4
      [] t \in {"long long", "unsigned long long", "double", "long"} -> 8
      [] OTHER -> 16

\* A copy-and-paste slip in the specializations: unsigned char gets char's tag.
getMatlabType_dupTag(t) ==
    CASE t = "char" -> "mxINT8_CLASS"
      [] t = "unsigned char" -> "mxINT8_CLASS"
      [] t = "short" -> "mxINT16_CLASS"
      [] t = "unsigned short" -> "mxUINT16_CLASS"
      [] t = "int" -> "mxINT32_CLASS"
      [] t = "unsigned int" -> "mxUINT32_CLASS"
      [] t = "long long" -> "mxINT64_CLASS"
      [] t = "unsigned long long" -> "mxUINT64_CLASS"
      [] t = "float" -> "mxSINGLE_CLASS"
      [] t = "double" -> "mxDOUBLE_CLASS"
      [] OTHER -> "mxUNKNOWN_CLASS"

\* hpers_TEMatEig::getMatlabType<T>(): the primary template returns
\* mxUNKNOWN_CLASS, each specialization its own class id.
getMatlabType(t) ==
    CASE t = "char" -> "mxINT8_CLASS"
      [] t = "unsigned char" -> "mxUINT8_CLASS"
      [] t = "short" -> "mxINT16_CLASS"
      [] t = "unsigned short" -> "mxUINT16_CLASS"
      [] t = "int" -> "mxINT32_CLASS"
      [] t = "unsigned int" -> "mxUINT32_CLASS"
      [] t = "long long" -> "mxINT64_CLASS"
      [] t = "unsigned long long" -> "mxUINT64_CLASS"
      [] t = "float" -> "mxSINGLE_CLASS"
      [] t = "double" -> "mxDOUBLE_CLASS"
      [] OTHER -> "mxUNKNOWN_CLASS"

\* ------------------------------------------------------------------- state
VARIABLES
    T,          \* the template argument of the calls
    pc,         \* "eigen" | "matlab" | "exported" | "imported" | "written" | "fault"
    heap,       \* sequence of buffers; a buffer id is an index into it
    matIn,      \* the Eigen input: a sequence of matrices [rows, cols, data]
    mx,         \* the mxArray: [dims, classID, data], or NullMx
    matOut,     \* the Eigen output of matlab2eigen: a sequence of matrices
    via,        \* where mx came from: "none" | "export2D" | "export3D" | "matlab"
    imp,        \* the import that made matOut: "none" | "import2D" | "import3D"
    copy_mem,   \* the copy_mem argument of that import
    copyLog,    \* the memcpy calls of the last conversion, in order
    oobReads,   \* <<buffer, element>> pairs the last conversion read outside a buffer
    oobWrites,  \* <<buffer, element>> pairs the last conversion wrote outside a buffer
    lastWrite,  \* the last write through matOut: [k, r, c, v], or NoWrite
    seed,       \* which contents the Eigen input was given
    nwrites     \* number of writes made through matOut

vars == <<T, pc, heap, matIn, mx, matOut, via, imp, copy_mem, copyLog,
          oobReads, oobWrites, lastWrite, seed, nwrites>>

NullMx == [dims |-> <<>>, classID |-> "none", data |-> 0]
NoWrite == [k |-> 0, r |-> 0, c |-> 0, v |-> 0]

\* What a read outside a buffer may return.
Garbage == {254, 255}
\* The value a caller writes through a converted matrix (differs from all data).
WriteValues == {77}

\* ------------------------------------------------------------ memory model

\* A typed pointer T*: a buffer and an offset in elements.
Ptr(b, o) == [buf |-> b, off |-> o]

\* p += n on a T*: advances n elements, that is n * sizeof(T) bytes.
PtrAdd(p, n) == [p EXCEPT !.off = @ + n]

\* The byte offset of a T* from the start of its buffer.
ByteOffset(p) == p.off * SizeOf(T)

\* A new buffer of n elements, each holding `fill`, at the end of the heap.
Alloc(h, n, fill) == Append(h, [i \in 1..n |-> fill])

\* std::memcpy(dst, src, nbytes) on buffers of T: element i of the source
\* range goes to element i of the destination range.  An element read from
\* outside the source buffer has the indeterminate value `junk`; a write
\* outside the destination buffer is recorded and not stored.
memcpy(h, dst, src, nbytes, junk) ==
    LET n == nbytes \div SizeOf(T)
        srcLen == Len(h[src.buf])
        dstLen == Len(h[dst.buf])
        srcElem(i) == IF src.off + i < srcLen THEN h[src.buf][src.off + i + 1] ELSE junk
    IN  [heap |-> [h EXCEPT ![dst.buf] =
                      [j \in 1..dstLen |->
                          IF j - 1 - dst.off \in 0..(n - 1)
                          THEN srcElem(j - 1 - dst.off) ELSE @[j]]],
         call |-> [dstBuf |-> dst.buf, dst |-> ByteOffset(dst),
                   srcBuf |-> src.buf, src |-> ByteOffset(src), n |-> nbytes],
         rd |-> {<<src.buf, src.off + i>> : i \in {i \in 0..(n - 1) : src.off + i >= srcLen}},
         wr |-> {<<dst.buf, dst.off + i>> : i \in {i \in 0..(n - 1) : dst.off + i >= dstLen}}]

\* ------------------------------------------------------- MATLAB matrix API

\* Product of a sequence of dimension sizes.
RECURSIVE Prod(_)
Prod(d) == IF d = <<>> THEN 1 ELSE Head(d) * Prod(Tail(d))

\* MATLAB drops trailing singleton dimensions beyond the second.
RECURSIVE Squeeze(_)
Squeeze(d) == IF Len(d) > 2 /\ d[Len(d)] = 1 THEN Squeeze(SubSeq(d, 1, Len(d) - 1)) ELSE d

\* mxCreateNumericArray(ndims, dims, classid, mxREAL): a zero-filled array.
mxCreateNumericArray(h, dims, classid) ==
    [heap |-> Alloc(h, Prod(dims), 0),
     mx |-> [dims |-> Squeeze(dims), classID |-> classid, data |-> Len(h) + 1]]

\* mxCreateNumericMatrix(m, n, classid, mxREAL)
mxCreateNumericMatrix(h, m, n, classid) == mxCreateNumericArray(h, <<m, n>>, classid)

\* mxGetData
mxGetData(a) == Ptr(a.data, 0)

\* mxGetM: the first dimension.
mxGetM(a) == a.dims[1]

\* mxGetN: the product of dimensions 2 through N.
mxGetN(a) == Prod(Tail(a.dims))

\* mxGetNumberOfDimensions
mxGetNumberOfDimensions(a) == Len(a.dims)

\* mxGetDimensions, indexed from 0 as in C.
mxGetDimensions(a) == [i \in 0..(Len(a.dims) - 1) |-> a.dims[i + 1]]

\* ------------------------------------------------------------- Eigen side

\* EigenMatrix(nrows, ncols): owning storage of nrows*ncols elements, not
\* initialised (every element is overwritten before it is read).
EigenMatrix(h, nrows, ncols) ==
    [heap |-> Alloc(h, nrows * ncols, 255),
     mat |-> [rows |-> nrows, cols |-> ncols, data |-> Len(h) + 1]]

\* matrix.data()
EigenData(m) == Ptr(m.data, 0)

\* Column-major coefficient offset of (r, c) in a matrix of `rows` rows.
ColMajor(r, c, rows) == r + c * rows

\* matrix(r, c)
At(h, m, r, c) == h[m.data][ColMajor(r, c, m.rows) + 1]

\* matOut = Eigen::Map<EigenMatrix>(src, nrows, ncols) with matOut an
\* Eigen::Matrix: the assignment gives matOut storage of its own of
\* nrows*ncols elements and copies the mapped coefficients into it.
MapAssign(h, src, nrows, ncols, junk) ==
    LET made == EigenMatrix(h, nrows, ncols)
        cp == memcpy(made.heap, EigenData(made.mat), src, SizeOf(T) * nrows * ncols, junk)
    IN  [heap |-> cp.heap, mat |-> made.mat, rd |-> cp.rd]

\* ------------------------------------------------------------ conversions
\* Each conversion is an operator from the heap and its arguments to the heap
\* after the call, the object it produced, its memcpy calls and the elements
\* it touched outside a buffer.

\* eigen2matlab (2D) that takes the byte count from the rows alone.
eigen2matlab2D_rowsOnly(h, m, junk) ==
    LET nrows == m.rows
        ncols == m.cols
        made == mxCreateNumericMatrix(h, nrows, ncols, getMatlabType(T))
        cp == memcpy(made.heap, mxGetData(made.mx), EigenData(m), SizeOf(T) * nrows, junk)
    IN  [heap |-> cp.heap, mx |-> made.mx, log |-> <<cp.call>>, rd |-> cp.rd, wr |-> cp.wr]

\* eigen2matlab (2D) that creates the array with rows and columns exchanged.
eigen2matlab2D_swappedDims(h, m, junk) ==
    LET nrows == m.rows
        ncols == m.cols
        made == mxCreateNumericMatrix(h, ncols, nrows, getMatlabType(T))
        cp == memcpy(made.heap, mxGetData(made.mx), EigenData(m),
                     SizeOf(T) * nrows * ncols, junk)
    IN  [heap |-> cp.heap, mx |-> made.mx, log |-> <<cp.call>>, rd |-> cp.rd, wr |-> cp.wr]

\* eigen2matlab(const EigenMatrix& matIn, mxArray*& matOut)
eigen2matlab2D(h, m, junk) ==
    LET nrows == m.rows
        ncols == m.cols
        made == mxCreateNumericMatrix(h, nrows, ncols, getMatlabType(T))
        dst_pointer == mxGetData(made.mx)
        src_pointer == EigenData(m)
        cp == memcpy(made.heap, dst_pointer, src_pointer, SizeOf(T) * nrows * ncols, junk)
    IN  [heap |-> cp.heap, mx |-> made.mx, log |-> <<cp.call>>, rd |-> cp.rd, wr |-> cp.wr]

\* The channel loop of eigen2matlab (3D) with the destination cursor advanced
\* by nrows instead of nrows * ncols.
RECURSIVE ExportLoop_rowStride(_, _, _, _, _, _, _, _)
ExportLoop_rowStride(acc, v, i, nchannels, nrows, ncols, tmp_pointer, junk) ==
    IF ~(i < nchannels) THEN acc
    ELSE LET cp == memcpy(acc.heap, tmp_pointer, EigenData(v[i + 1]),
                          SizeOf(T) * nrows * ncols, junk)
         IN  ExportLoop_rowStride(
                 [heap |-> cp.heap, log |-> Append(acc.log, cp.call),
                  rd |-> acc.rd \cup cp.rd, wr |-> acc.wr \cup cp.wr],
                 v, i + 1, nchannels, nrows, ncols,
                 PtrAdd(tmp_pointer, nrows), junk)

\* The channel loop of eigen2matlab (3D) copying each channel at its own
\* size instead of the size of the first.
RECURSIVE ExportLoop_ownSize(_, _, _, _, _, _, _, _)
ExportLoop_ownSize(acc, v, i, nchannels, nrows, ncols, tmp_pointer, junk) ==
    IF ~(i < nchannels) THEN acc
    ELSE LET cp == memcpy(acc.heap, tmp_pointer, EigenData(v[i + 1]),
                          SizeOf(T) * v[i + 1].rows * v[i + 1].cols, junk)
         IN  ExportLoop_ownSize(
                 [heap |-> cp.heap, log |-> Append(acc.log, cp.call),
                  rd |-> acc.rd \cup cp.rd, wr |-> acc.wr \cup cp.wr],
                 v, i + 1, nchannels, nrows, ncols,
                 PtrAdd(tmp_pointer, nrows * ncols), junk)

\* for (int i = 0; i < nchannels; i++) { memcpy; tmp_pointer += nrows * ncols; }
RECURSIVE ExportLoop(_, _, _, _, _, _, _, _)
ExportLoop(acc, v, i, nchannels, nrows, ncols, tmp_pointer, junk) ==
    IF ~(i < nchannels) THEN acc
    ELSE LET src_pointer == EigenData(v[i + 1])
             cp == memcpy(acc.heap, tmp_pointer, src_pointer,
                          SizeOf(T) * nrows * ncols, junk)
         IN  ExportLoop(
                 [heap |-> cp.heap, log |-> Append(acc.log, cp.call),
                  rd |-> acc.rd \cup cp.rd, wr |-> acc.wr \cup cp.wr],
                 v, i + 1, nchannels, nrows, ncols,
                 PtrAdd(tmp_pointer, nrows * ncols), junk)

\* eigen2matlab(const std::vector<EigenMatrix>& matIn, mxArray*& matOut)
eigen2matlab3D(h, v, junk) ==
    LET nrows == v[1].rows
        ncols == v[1].cols
        nchannels == Len(v)
        dims == <<nrows, ncols, nchannels>>
        made == mxCreateNumericArray(h, dims, getMatlabType(T))
        dst_pointer == mxGetData(made.mx)
        done == ExportLoop([heap |-> made.heap, log |-> <<>>, rd |-> {}, wr |-> {}],
                           v, 0, nchannels, nrows, ncols, dst_pointer, junk)
    IN  [heap |-> done.heap, mx |-> made.mx, log |-> done.log, rd |-> done.rd, wr |-> done.wr]

\* The copy branch of matlab2eigen (2D) that skips the copy and maps the
\* source buffer instead.
Import2DCopy_aliasing(h, src_pointer, nrows, ncols, junk) ==
    [heap |-> h, out |-> [rows |-> nrows, cols |-> ncols, data |-> src_pointer.buf],
     log |-> <<>>, rd |-> {}, wr |-> {}]

\* if (copy_mem) { matOut = EigenMatrix(nrows, ncols); memcpy(...); }
Import2DCopy(h, src_pointer, nrows, ncols, junk) ==
    LET made == EigenMatrix(h, nrows, ncols)
        dst_pointer == EigenData(made.mat)
        cp == memcpy(made.heap, dst_pointer, src_pointer, SizeOf(T) * nrows * ncols, junk)
    IN  [heap |-> cp.heap, out |-> made.mat, log |-> <<cp.call>>, rd |-> cp.rd, wr |-> cp.wr]

\* else { matOut = Eigen::Map<EigenMatrix>(src_pointer, nrows, ncols); }
Import2DView(h, src_pointer, nrows, ncols, junk) ==
    LET made == MapAssign(h, src_pointer, nrows, ncols, junk)
    IN  [heap |-> made.heap, out |-> made.mat, log |-> <<>>, rd |-> made.rd, wr |-> {}]

\* matlab2eigen (2D) that takes the column count from the second dimension
\* alone.
matlab2eigen2D_secondDim(h, a, copy, junk) ==
    LET nrows == mxGetM(a)
        ncols == mxGetDimensions(a)[1]
        src_pointer == mxGetData(a)
    IN  IF copy THEN Import2DCopy(h, src_pointer, nrows, ncols, junk)
        ELSE Import2DView(h, src_pointer, nrows, ncols, junk)

\* matlab2eigen(mxArray* matIn, EigenMatrix& matOut, bool copy_mem = false)
matlab2eigen2D(h, a, copy, junk) ==
    LET nrows == mxGetM(a)
        ncols == mxGetN(a)
        src_pointer == mxGetData(a)
    IN  IF copy THEN Import2DCopy(h, src_pointer, nrows, ncols, junk)
        ELSE Import2DView(h, src_pointer, nrows, ncols, junk)

\* The channel count of matlab2eigen (3D) read as dims[2] only for exactly
\* three dimensions.
NChannels_exactly3(ndims, dims) == IF ndims = 3 THEN dims[2] ELSE 1

\* unsigned int nchannels = ndims == 2 ? 1 : (unsigned int)dims[2];
NChannels(ndims, dims) == IF ndims = 2 THEN 1 ELSE dims[2]

\* The channel loop of matlab2eigen (3D) that never advances src_pointer.
RECURSIVE ImportLoop_noAdvance(_, _, _, _, _, _, _, _)
ImportLoop_noAdvance(acc, i, nchannels, nrows, ncols, src_pointer, copy, junk) ==
    IF ~(i < nchannels) THEN acc
    ELSE LET one == IF copy THEN Import2DCopy(acc.heap, src_pointer, nrows, ncols, junk)
                    ELSE Import2DView(acc.heap, src_pointer, nrows, ncols, junk)
         IN  ImportLoop_noAdvance(
                 [heap |-> one.heap, out |-> Append(acc.out, one.out),
                  log |-> acc.log \o one.log, rd |-> acc.rd \cup one.rd,
                  wr |-> acc.wr \cup one.wr],
                 i + 1, nchannels, nrows, ncols, src_pointer, copy, junk)

\* for (int i = 0; i < nchannels; i++) { matOut[i] = ...; src_pointer += nrows * ncols; }
\* The two loops differ only in the body's first statements, which are those
\* of the two branches of the 2D function.
RECURSIVE ImportLoop(_, _, _, _, _, _, _, _)
ImportLoop(acc, i, nchannels, nrows, ncols, src_pointer, copy, junk) ==
    IF ~(i < nchannels) THEN acc
    ELSE LET one == IF copy THEN Import2DCopy(acc.heap, src_pointer, nrows, ncols, junk)
                    ELSE Import2DView(acc.heap, src_pointer, nrows, ncols, junk)
         IN  ImportLoop(
                 [heap |-> one.heap, out |-> Append(acc.out, one.out),
                  log |-> acc.log \o one.log, rd |-> acc.rd \cup one.rd,
                  wr |-> acc.wr \cup one.wr],
                 i + 1, nchannels, nrows, ncols,
                 PtrAdd(src_pointer, nrows * ncols), copy, junk)

\* matlab2eigen(mxArray* matIn, std::vector<EigenMatrix>& matOut, bool copy_mem = true)
\* The (unsigned int) casts and the unsigned product nrows * ncols leave every
\* size below 2^32 as it is; all sizes here are.
matlab2eigen3D(h, a, copy, junk) ==
    LET ndims == mxGetNumberOfDimensions(a)
        dims == mxGetDimensions(a)
        nrows == dims[0]
        ncols == dims[1]
        nchannels == NChannels(ndims, dims)
        src_pointer == mxGetData(a)
    IN  ImportLoop([heap |-> h, out |-> <<>>, log |-> <<>>, rd |-> {}, wr |-> {}],
                   0, nchannels, nrows, ncols, src_pointer, copy, junk)

\* ------------------------------------------------------------------ inputs

\* The contents an Eigen input is given.  "ascending": the buffer of channel k
\* holds 10k+1, 10k+2, ...  "numbered": the coefficients are numbered along
\* the rows, channel after channel, so that two 2x2 channels are
\* [[1,2],[3,4]] and [[5,6],[7,8]].
Seeds == {"ascending", "numbered"}

\* Element i (from 1) of the buffer of channel k (from 1), a rows x cols matrix.
EigenElem(s, k, i, rows, cols) ==
    IF s = "ascending" THEN 10 * k + i
    ELSE LET r == (i - 1) % rows
             c == (i - 1) \div rows
         IN  (k - 1) * rows * cols + r * cols + c + 1

\* Element i (from 1) of the buffer of an array received from MATLAB.
MatlabElem(i) == 100 + i

Shapes == (0..MaxRows) \X (0..MaxCols)

\* The caller holds a vector of n Eigen matrices, channel k of shape shape[k],
\* each owning its buffer.
EigenInput(n, shape) ==
    /\ seed \in Seeds
    /\ heap = [k \in 1..n |-> [i \in 1..(shape[k][1] * shape[k][2]) |->
                                  EigenElem(seed, k, i, shape[k][1], shape[k][2])]]
    /\ matIn = [k \in 1..n |-> [rows |-> shape[k][1], cols |-> shape[k][2], data |-> k]]
    /\ mx = NullMx
    /\ pc = "eigen"
    /\ via = "none"

\* The caller holds an mxArray of class getMatlabType<T>() received from
\* MATLAB, of 2, 3 or 4 dimensions (MATLAB keeps no trailing singleton).
MatlabInput(dims) ==
    /\ seed = "ascending"
    /\ heap = << [i \in 1..Prod(dims) |-> MatlabElem(i)] >>
    /\ matIn = <<>>
    /\ mx = [dims |-> dims, classID |-> getMatlabType(T), data |-> 1]
    /\ pc = "matlab"
    /\ via = "matlab"

MatlabDims ==
    {d \in ((0..MaxRows) \X (0..MaxCols))
            \cup ((0..MaxRows) \X (0..MaxCols) \X (0..MaxChannels))
            \cup ((0..MaxRows) \X (0..MaxCols) \X (0..MaxChannels) \X {0, 2}) :
        Squeeze(d) = d}

InitRest ==
    /\ T \in ScalarTypes
    /\ matOut = <<>>
    /\ imp = "none"
    /\ copy_mem = FALSE
    /\ copyLog = <<>>
    /\ oobReads = {}
    /\ oobWrites = {}
    /\ lastWrite = NoWrite
    /\ nwrites = 0

\* Channel lists whose channels all have the shape of the first.
Uniform(n, shape) == \A k \in 1..n : shape[k] = shape[1]

Init ==
    /\ InitRest
    /\ \/ \E n \in 1..MaxChannels : \E shape \in [1..n -> Shapes] :
            Uniform(n, shape) /\ EigenInput(n, shape)
       \/ \E dims \in MatlabDims : MatlabInput(dims)

\* Every channel list, uniform or not.
InitExport ==
    /\ InitRest
    /\ \E n \in 1..MaxChannels : \E shape \in [1..n -> Shapes] : EigenInput(n, shape)

\* ----------------------------------------------------------------- actions

\* How a call that read outside a buffer may end: it returns, or the read faults.
Outcomes(rd) == IF rd = {} THEN {"returns"} ELSE {"returns", "faults"}

\* A call that faulted: the program is gone; what it read is kept for the record.
Faulted(res) ==
    /\ pc' = "fault"
    /\ oobReads' = res.rd
    /\ UNCHANGED <<T, heap, matIn, mx, matOut, via, imp, copy_mem, copyLog, oobWrites,
                   lastWrite, seed, nwrites>>

\* A call of an export: the caller's mxArray* is set, the input is untouched.
Exported(res, kind, outcome) ==
    IF outcome = "faults" THEN Faulted(res)
    ELSE /\ pc' = "exported"
         /\ heap' = res.heap
         /\ mx' = res.mx
         /\ via' = kind
         /\ copyLog' = res.log
         /\ oobReads' = res.rd
         /\ oobWrites' = res.wr
         /\ UNCHANGED <<T, matIn, matOut, imp, copy_mem, lastWrite, seed, nwrites>>

\* eigen2matlab<T>(matIn[0], mx)
Export2D ==
    /\ pc = "eigen"
    /\ Len(matIn) = 1
    /\ \E junk \in Garbage :
         LET res == eigen2matlab2D(heap, matIn[1], junk)
         IN  \E outcome \in Outcomes(res.rd) : Exported(res, "export2D", outcome)

\* eigen2matlab<T>(matIn, mx)
Export3D ==
    /\ pc = "eigen"
    /\ \E junk \in Garbage :
         LET res == eigen2matlab3D(heap, matIn, junk)
         IN  \E outcome \in Outcomes(res.rd) : Exported(res, "export3D", outcome)

\* A call of an import: the caller's matOut is set, the mxArray* is untouched.
Imported(res, out, kind, copy, outcome) ==
    IF outcome = "faults" THEN Faulted(res)
    ELSE /\ pc' = "imported"
         /\ heap' = res.heap
         /\ matOut' = out
         /\ imp' = kind
         /\ copy_mem' = copy
         /\ copyLog' = res.log
         /\ oobReads' = res.rd
         /\ oobWrites' = res.wr
         /\ UNCHANGED <<T, matIn, mx, via, lastWrite, seed, nwrites>>

\* matlab2eigen<T>(mx, matOut[0], copy)
Import2D ==
    /\ pc \in {"exported", "matlab"}
    /\ \E copy \in BOOLEAN : \E junk \in Garbage :
         LET res == matlab2eigen2D(heap, mx, copy, junk)
         IN  \E outcome \in Outcomes(res.rd) :
                 Imported(res, <<res.out>>, "import2D", copy, outcome)

\* matlab2eigen<T>(mx, matOut, copy)
Import3D ==
    /\ pc \in {"exported", "matlab"}
    /\ \E copy \in BOOLEAN : \E junk \in Garbage :
         LET res == matlab2eigen3D(heap, mx, copy, junk)
         IN  \E outcome \in Outcomes(res.rd) :
                 Imported(res, res.out, "import3D", copy, outcome)

\* matOut[k](r, c) = v by the caller, after an import.
Write ==
    /\ pc \in {"imported", "written"}
    /\ nwrites < MaxWrites
    /\ \E k \in 1..Len(matOut) : \E r \in 0..(matOut[k].rows - 1) :
       \E c \in 0..(matOut[k].cols - 1) : \E v \in WriteValues :
         /\ heap' = [heap EXCEPT ![matOut[k].data][ColMajor(r, c, matOut[k].rows) + 1] = v]
         /\ lastWrite' = [k |-> k, r |-> r, c |-> c, v |-> v]
    /\ pc' = "written"
    /\ nwrites' = nwrites + 1
    /\ UNCHANGED <<T, matIn, mx, matOut, via, imp, copy_mem, copyLog, oobReads, oobWrites, seed>>

Next == Export2D \/ Export3D \/ Import2D \/ Import3D \/ Write

Spec == Init /\ [][Next]_vars

NextExport == Export2D \/ Export3D

\* The exports alone, over every channel list.
SpecExport == InitExport /\ [][NextExport]_vars

\* ------------------------------------------------------------------ claims

\* The coefficient (r, c) channel k of the Eigen input was given.
OrigAt(k, r, c) ==
    EigenElem(seed, k, ColMajor(r, c, matIn[k].rows) + 1, matIn[k].rows, matIn[k].cols)

\* The element at offset `off` (from 0) of the mxArray's buffer.
MxElem(off) == heap[mx.data][off + 1]

RowsOf(m) == 0..(m.rows - 1)
ColsOf(m) == 0..(m.cols - 1)

\* The Eigen input still is what the caller made it.
InputIntact ==
    \A k \in 1..Len(matIn) :
        /\ matIn[k].data = k
        /\ Len(heap[k]) = matIn[k].rows * matIn[k].cols
        /\ \A r \in RowsOf(matIn[k]) : \A c \in ColsOf(matIn[k]) :
               At(heap, matIn[k], r, c) = OrigAt(k, r, c)

\* C1: 2D round trip.  When a matrix M (of any shape, rows or cols 0 included)
\* has been exported by the 2D eigen2matlab and the array imported by the 2D
\* matlab2eigen with copy_mem = true, the result has M's rows, M's cols and
\* M's coefficient at every (r, c).
C1_RoundTrip2D ==
    (pc = "imported" /\ via = "export2D" /\ imp = "import2D" /\ copy_mem) =>
        /\ Len(matOut) = 1
        /\ matOut[1].rows = matIn[1].rows
        /\ matOut[1].cols = matIn[1].cols
        /\ Len(heap[matOut[1].data]) = matIn[1].rows * matIn[1].cols
        /\ \A r \in RowsOf(matIn[1]) : \A c \in ColsOf(matIn[1]) :
               /\ At(heap, matOut[1], r, c) = OrigAt(1, r, c)
               /\ At(heap, matOut[1], r, c) = At(heap, matIn[1], r, c)

\* A 2x2 matrix [[1,2],[3,4]] of unsigned int has made the round trip.
C1_Witness ==
    /\ pc = "imported" /\ via = "export2D" /\ imp = "import2D" /\ copy_mem
    /\ T = "unsigned int" /\ seed = "numbered"
    /\ matIn[1].rows = 2 /\ matIn[1].cols = 2
    /\ heap[matOut[1].data] = <<1, 3, 2, 4>>

\* C2: tensor round trip.  When a non-empty list of channels of one shape has
\* been exported by the 3D eigen2matlab and the array imported by the 3D
\* matlab2eigen with copy_mem = true, the result has as many matrices as the
\* list, the k-th with the shape and every coefficient of the k-th channel
\* (a list of one channel included).
C2_RoundTrip3D ==
    (pc = "imported" /\ via = "export3D" /\ imp = "import3D" /\ copy_mem) =>
        /\ Len(matOut) = Len(matIn)
        /\ \A k \in 1..Len(matIn) :
               /\ matOut[k].rows = matIn[k].rows
               /\ matOut[k].cols = matIn[k].cols
               /\ Len(heap[matOut[k].data]) = matIn[k].rows * matIn[k].cols
               /\ \A r \in RowsOf(matIn[k]) : \A c \in ColsOf(matIn[k]) :
                      /\ At(heap, matOut[k], r, c) = OrigAt(k, r, c)
                      /\ At(heap, matOut[k], r, c) = At(heap, matIn[k], r, c)

\* Two 2x2 float channels [[1,2],[3,4]] and [[5,6],[7,8]] have made the round trip.
C2_Witness ==
    /\ pc = "imported" /\ via = "export3D" /\ imp = "import3D" /\ copy_mem
    /\ T = "float" /\ seed = "numbered"
    /\ Len(matIn) = 2 /\ matIn[1].rows = 2 /\ matIn[1].cols = 2
    /\ heap[matOut[1].data] = <<1, 3, 2, 4>>
    /\ heap[matOut[2].data] = <<5, 7, 6, 8>>

\* C3 (as claimed): after the 2D matlab2eigen with copy_mem = false a write
\* through the result at (r, c) is read back from the array's buffer at
\* offset r + c*rows, the result's buffer being the array's buffer.
C3_ViewAliases ==
    (pc = "written" /\ imp = "import2D" /\ ~copy_mem) =>
        /\ MxElem(ColMajor(lastWrite.r, lastWrite.c, mxGetM(mx))) = lastWrite.v
        /\ matOut[1].data = mx.data

\* C4: copy isolation.  An import with copy_mem = true leaves the mxArray (its
\* dimensions, class and buffer contents) as it was, and so does every write
\* made afterwards through the matrices the import returned.
C4_CopyIsolation ==
    [][(copy_mem' /\ pc' \in {"imported", "written"}) =>
           (mx' = mx /\ heap'[mx.data] = heap[mx.data])]_vars

\* After a copying import of a 2x2 array from MATLAB a write through the
\* result has changed the result and the array's buffer holds what it held.
C4_Witness ==
    /\ pc = "written" /\ copy_mem /\ via = "matlab"
    /\ mx.dims = <<2, 2>>
    /\ At(heap, matOut[lastWrite.k], lastWrite.r, lastWrite.c) = lastWrite.v
    /\ heap[mx.data] = <<101, 102, 103, 104>>

\* C5: channel ordering on export.  For a non-empty list of n channels of one
\* shape rows x cols the 3D eigen2matlab yields an array of shape
\* (rows, cols, n) (the third dimension absent when n = 1) whose buffer of
\* rows*cols*n elements holds coefficient (r, c) of channel k (from 0) at
\* offset k*rows*cols + r + c*rows; the copy of channel k starts at byte
\* offset k*rows*cols*sizeof(T) of the buffer.
C5_ChannelOrdering ==
    (pc = "exported" /\ via = "export3D") =>
        LET n == Len(matIn)
            rows == matIn[1].rows
            cols == matIn[1].cols
        IN  /\ mx.dims[1] = rows
            /\ mx.dims[2] = cols
            /\ \/ Len(mx.dims) = 3 /\ mx.dims[3] = n
               \/ Len(mx.dims) = 2 /\ n = 1
            /\ Len(heap[mx.data]) = rows * cols * n
            /\ Len(copyLog) = n
            /\ \A k \in 0..(n - 1) :
                   /\ copyLog[k + 1].dstBuf = mx.data
                   /\ copyLog[k + 1].dst = k * rows * cols * SizeOf(T)
                   /\ \A r \in 0..(rows - 1) : \A c \in 0..(cols - 1) :
                          MxElem(k * rows * cols + r + c * rows) = OrigAt(k + 1, r, c)

\* Two 2x2 float channels [[1,2],[3,4]] and [[5,6],[7,8]] have been exported:
\* shape (2,2,2), column-major(A) followed by column-major(B), B at byte 16.
C5_Witness ==
    /\ pc = "exported" /\ via = "export3D"
    /\ T = "float" /\ seed = "numbered"
    /\ mx.dims = <<2, 2, 2>>
    /\ heap[mx.data] = <<1, 3, 2, 4, 5, 7, 6, 8>>
    /\ copyLog[2].dst = 16

\* C6: type tags.  Every scalar type with a specialization (signed and
\* unsigned integers of 8, 16, 32 and 64 bits, float, double) maps to a tag
\* other than mxUNKNOWN_CLASS, no two of them map to the same tag, and an
\* array an export has created carries the tag of the export's T.
C6_TagTotalInjective ==
    /\ \A t \in ScalarTypes : getMatlabType(t) # "mxUNKNOWN_CLASS"
    /\ \A t1 \in ScalarTypes : \A t2 \in ScalarTypes :
           t1 # t2 => getMatlabType(t1) # getMatlabType(t2)
    /\ pc = "exported" =>
           /\ mx.classID = getMatlabType(T)
           /\ \A t \in ScalarTypes : getMatlabType(t) = mx.classID => t = T

\* An export of unsigned char has created an array tagged mxUINT8_CLASS.
C6_Witness ==
    /\ pc = "exported"
    /\ T = "unsigned char"
    /\ mx.classID = "mxUINT8_CLASS"

\* C7: exportMatrix layout.  The 2D eigen2matlab yields an array in a buffer
\* that did not exist before the call, of shape (rows, cols), tagged with
\* T's tag, holding M(r, c) at offset r + c*rows for every r < rows and
\* c < cols, and leaves M as it was.
C7_ExportLayout ==
    (pc = "exported" /\ via = "export2D") =>
        LET rows == matIn[1].rows
            cols == matIn[1].cols
        IN  /\ mx.dims = <<rows, cols>>
            /\ mx.classID = getMatlabType(T)
            /\ mx.data > Len(matIn)
            /\ Len(heap[mx.data]) = rows * cols
            /\ \A r \in 0..(rows - 1) : \A c \in 0..(cols - 1) :
                   MxElem(r + c * rows) = OrigAt(1, r, c)
            /\ InputIntact

\* [[1,2],[3,4]] of unsigned int has been exported: shape (2,2), tag
\* unsigned-32, buffer [1,3,2,4].
C7_Witness ==
    /\ pc = "exported" /\ via = "export2D"
    /\ T = "unsigned int" /\ seed = "numbered"
    /\ mx = [dims |-> <<2, 2>>, classID |-> "mxUINT32_CLASS", data |-> 2]
    /\ heap[mx.data] = <<1, 3, 2, 4>>
    /\ heap[matIn[1].data] = <<1, 3, 2, 4>>

\* The matrices a 3D import returned are rows x cols, the k-th (from 0)
\* holding at (r, c) the element at offset k*rows*cols + r + c*rows of the
\* array's buffer, wherever that offset is inside the buffer.
ChannelsFromBuffer(n) ==
    LET rows == mx.dims[1]
        cols == mx.dims[2]
    IN  \A k \in 0..(n - 1) :
            /\ matOut[k + 1].rows = rows
            /\ matOut[k + 1].cols = cols
            /\ \A r \in 0..(rows - 1) : \A c \in 0..(cols - 1) :
                   LET off == k * rows * cols + r + c * rows
                   IN  off < Len(heap[mx.data]) => At(heap, matOut[k + 1], r, c) = MxElem(off)

\* C8 (as claimed): the 3D matlab2eigen returns dims[2] matrices when the
\* array has exactly 3 dimensions and 1 in every other case, the k-th taken
\* from offset k*rows*cols of the buffer (stated for arrays that hold at
\* least one element).
C8_CountOnlyFor3Dims ==
    (pc = "imported" /\ imp = "import3D" /\ Len(heap[mx.data]) > 0) =>
        LET n == IF Len(mx.dims) = 3 THEN mx.dims[3] ELSE 1
        IN  Len(matOut) = n /\ ChannelsFromBuffer(n)

\* C8 (amended): the 3D matlab2eigen returns 1 matrix when the array has
\* exactly 2 dimensions and dims[2] matrices in every other case (3
\* dimensions or more), the k-th rows x cols and taken from offset
\* k*rows*cols of the buffer, in either mode.
C8_ChannelCount ==
    (pc = "imported" /\ imp = "import3D") =>
        LET n == IF Len(mx.dims) = 2 THEN 1 ELSE mx.dims[3]
        IN  Len(matOut) = n /\ ChannelsFromBuffer(n)

\* A 2x2x2x2 array from MATLAB has been imported as 2 channels.
C8_Witness ==
    /\ pc = "imported" /\ imp = "import3D"
    /\ mx.dims = <<2, 2, 2, 2>>
    /\ Len(matOut) = 2
    /\ heap[matOut[2].data] = <<105, 106, 107, 108>>

\* C9 (as claimed): for an array of shape (rows, cols, channels) with
\* channels > 1 the 2D matlab2eigen returns a rows x cols matrix holding the
\* first slice (stated for arrays that hold at least one element).
C9_IgnoresThirdDim ==
    (pc = "imported" /\ imp = "import2D" /\ Len(mx.dims) = 3 /\ mx.dims[3] > 1
       /\ Len(heap[mx.data]) > 0) =>
        /\ matOut[1].rows = mx.dims[1]
        /\ matOut[1].cols = mx.dims[2]
        /\ \A r \in RowsOf(matOut[1]) : \A c \in 0..(mx.dims[2] - 1) :
               At(heap, matOut[1], r, c) = MxElem(r + c * mx.dims[1])

\* C9 (amended): for an array of shape (rows, cols, channels) with
\* channels > 1 the 2D matlab2eigen returns, in either mode, a matrix of
\* rows rows and cols*channels columns holding the whole buffer: its
\* coefficient (r, c) is the element at offset r + c*rows.
C9_ColsTimesChannels ==
    (pc = "imported" /\ imp = "import2D" /\ Len(mx.dims) = 3 /\ mx.dims[3] > 1) =>
        /\ matOut[1].rows = mx.dims[1]
        /\ matOut[1].cols = mx.dims[2] * mx.dims[3]
        /\ Len(heap[matOut[1].data]) = Len(heap[mx.data])
        /\ \A r \in RowsOf(matOut[1]) : \A c \in ColsOf(matOut[1]) :
               At(heap, matOut[1], r, c) = MxElem(r + c * mx.dims[1])

\* A 2x2x2 array from MATLAB has been imported by the 2D function as a 2x4 matrix.
C9_Witness ==
    /\ pc = "imported" /\ imp = "import2D"
    /\ mx.dims = <<2, 2, 2>>
    /\ matOut[1].rows = 2 /\ matOut[1].cols = 4
    /\ At(heap, matOut[1], 1, 3) = 108

\* C10: export of mismatched channels.  For every non-empty channel list,
\* uniform or not, the 3D eigen2matlab sizes the array from channels[0] alone
\* and copies exactly rows_0*cols_0 elements from the start of every channel to
\* offset k*rows_0*cols_0: a larger channel is cut to its first rows_0*cols_0
\* elements, a smaller one is read past its end (the elements rows_k*cols_k
\* and up), and no write leaves the destination of rows_0*cols_0*n elements.
C10_MismatchedExport ==
    (pc = "exported" /\ via = "export3D") =>
        LET n == Len(matIn)
            size0 == matIn[1].rows * matIn[1].cols
            size(k) == matIn[k].rows * matIn[k].cols
        IN  /\ Len(heap[mx.data]) = size0 * n
            /\ Len(copyLog) = n
            /\ \A k \in 1..n :
                   /\ copyLog[k].n = size0 * SizeOf(T)
                   /\ copyLog[k].srcBuf = matIn[k].data /\ copyLog[k].src = 0
                   /\ copyLog[k].dstBuf = mx.data
                   /\ copyLog[k].dst = (k - 1) * size0 * SizeOf(T)
                   /\ copyLog[k].dst + copyLog[k].n <= size0 * n * SizeOf(T)
                   /\ \A i \in 0..(size0 - 1) :
                          i < size(k) => MxElem((k - 1) * size0 + i) = heap[matIn[k].data][i + 1]
            /\ oobWrites = {}
            /\ oobReads = UNION {{<<matIn[k].data, i>> : i \in size(k)..(size0 - 1)} : k \in 1..n}
            /\ InputIntact

\* A 2x2 channel followed by a 1x1 channel has been exported: three elements
\* past the end of the second channel were read.
C10_Witness ==
    /\ pc = "exported" /\ via = "export3D"
    /\ Len(matIn) = 2
    /\ matIn[1].rows = 2 /\ matIn[1].cols = 2
    /\ matIn[2].rows = 1 /\ matIn[2].cols = 1
    /\ oobReads = {<<2, 1>>, <<2, 2>>, <<2, 3>>}
    /\ MxElem(5) \in Garbage

====
